---- MODULE Spec2Model ----
(***************************************************************************)
(* Model of the InteractiveWater component (components/InteractiveWater):  *)
(* two Int16Array grids, the resize handler, the interaction effect that   *)
(* deposits a ripple, and the requestAnimationFrame render loop that       *)
(* propagates the wave field and refracts the video texture in one pass.   *)
(***************************************************************************)
EXTENDS Integers, Sequences, FiniteSets, TLC

(* ------------------------------ bounds --------------------------------- *)
\* largest grid side the resize events of the model produce
MaxDim == 4
\* interaction points are k / PointDen, k \in 0..PointDen
PointDen == 1
\* display refreshes the model lets happen
MaxFrames == 2
\* external events (resize, interaction, theme, video, teardown) the model
\* lets happen
MaxEvents == 2
\* amplitudes the initial grids of the decay study draw from
MaxAmp == 1
\* frames the wave-field study runs after the deposit
MaxWaveFrames == 5
\* longest colour string the parsing study draws
MaxColourLen == 7
\* largest grid side the index study draws
MaxSide == 5
\* grid side and number of frames of the swell study
SwellSide == 7
MaxSwellFrames == 56

(* --------------------------- program constants ------------------------- *)
radius == 4
strength == 600
\* const scale = 0.5, as the fraction 1 / scaleDen
scaleDen == 2

\* the colour strings are sequences of one-character strings
DEFAULT_CONFIG ==
    [ damping        |-> [num |-> 96, den |-> 100],
      shimmer        |-> 5,
      baseColor      |-> <<"#", "0", "0", "0", "0", "0", "0">>,
      highlightColor |-> <<"#", "0", "0", "d", "2", "f", "f">>,
      label          |-> "Deep Water" ]

\* a theme as generateThemeFromImage returns it (damping 0.85..0.99,
\* shimmer 1..20, hex colours)
LAVA_CONFIG ==
    [ damping        |-> [num |-> 90, den |-> 100],
      shimmer        |-> 8,
      baseColor      |-> <<"#", "f", "f", "5", "0", "0", "0">>,
      highlightColor |-> <<"#", "f", "f", "f", "f", "5", "0">>,
      label          |-> "Molten Lava" ]

Themes == {DEFAULT_CONFIG, LAVA_CONFIG}

(* ------------------------------ arithmetic ----------------------------- *)
Abs(n) == IF n < 0 THEN -n ELSE n
Min(a, b) == IF a < b THEN a ELSE b

\* storing a number into an Int16Array element wraps it modulo 2^16
ToInt16(v) == ((v + 32768) % 65536) - 32768

\* variant: a halving that truncates toward zero, as  (s / 2) | 0  would
TruncHalf(s) == IF s < 0 THEN -((-s) \div 2) ELSE s \div 2

\* (s >> 1) on a 32-bit integer: arithmetic shift, rounds toward -infinity
ShiftRight1(s) == s \div 2

\* variant: Math.trunc(v * damping)
TruncDamp(v, damping) ==
    IF v < 0 THEN -(((-v) * damping.num) \div damping.den)
    ELSE (v * damping.num) \div damping.den

\* variant: the damping factor is never applied
Undamped(v, damping) == v

\* Math.floor(v * damping), damping = num / den; the double product of an
\* Int16 value and 0.85, 0.9, 0.96 or 0.99 has the floor of the exact one
FloorDamp(v, damping) == (v * damping.num) \div damping.den

(* --------------------------- colour parsing ---------------------------- *)
HexLower == <<"0", "1", "2", "3", "4", "5", "6", "7", "8", "9",
              "a", "b", "c", "d", "e", "f">>
HexUpper == <<"0", "1", "2", "3", "4", "5", "6", "7", "8", "9",
              "A", "B", "C", "D", "E", "F">>

\* [a-f\d] under the i flag
IsHexDigit(c) == \E k \in 1..16 : HexLower[k] = c \/ HexUpper[k] = c

HexValue(c) == (CHOOSE k \in 1..16 : HexLower[k] = c \/ HexUpper[k] = c) - 1

\* parseInt(pair, 16) of a two-digit group
ParsePair(s, at) == 16 * HexValue(s[at]) + HexValue(s[at + 1])

\* variant: the pattern without the ? after #
hexToRgbHashRequired(hex) ==
    IF Len(hex) = 7 /\ hex[1] = "#" /\ \A k \in 2..7 : IsHexDigit(hex[k])
    THEN [r |-> ParsePair(hex, 2), g |-> ParsePair(hex, 4),
          b |-> ParsePair(hex, 6)]
    ELSE [r |-> 0, g |-> 0, b |-> 0]

\* /^#?([a-f\d]{2})([a-f\d]{2})([a-f\d]{2})$/i, no match gives black
hexToRgb(hex) ==
    LET body == IF Len(hex) > 0 /\ hex[1] = "#" THEN Tail(hex) ELSE hex
    IN  IF Len(body) = 6 /\ \A k \in 1..6 : IsHexDigit(body[k])
        THEN [r |-> ParsePair(body, 1), g |-> ParsePair(body, 3),
              b |-> ParsePair(body, 5)]
        ELSE [r |-> 0, g |-> 0, b |-> 0]

(* ------------------------ floating point results ----------------------- *)
\* Math.floor(offset * 0.05 * 5) is one below the exact floor for these
\* negative offsets -4m (0.05 is not a binary fraction and the rounded
\* product lands just under the integer); m is listed up to 1024.  For
\* shimmer 1, 2, 3, 4, 8 and 16 the double result is the exact floor on
\* the whole range of a difference of two Int16 values.
Shimmer5Low == {
    3, 6, 7, 12, 14, 23, 24, 28, 29, 41, 46, 48, 51, 53, 56, 58, 61, 63, 82,
    87, 92, 96, 97, 101, 102, 106, 107, 111, 112, 116, 117, 121, 122, 126,
    127, 164, 169, 174, 179, 184, 189, 192, 194, 197, 199, 202, 204, 207,
    209, 212, 214, 217, 219, 222, 224, 227, 229, 232, 234, 237, 239, 242,
    244, 247, 249, 252, 254, 323, 328, 333, 338, 343, 348, 353, 358, 363,
    368, 373, 378, 383, 384, 388, 389, 393, 394, 398, 399, 403, 404, 408,
    409, 413, 414, 418, 419, 423, 424, 428, 429, 433, 434, 438, 439, 443,
    444, 448, 449, 453, 454, 458, 459, 463, 464, 468, 469, 473, 474, 478,
    479, 483, 484, 488, 489, 493, 494, 498, 499, 503, 504, 508, 509, 641,
    646, 651, 656, 661, 666, 671, 676, 681, 686, 691, 696, 701, 706, 711,
    716, 721, 726, 731, 736, 741, 746, 751, 756, 761, 766, 768, 771, 773,
    776, 778, 781, 783, 786, 788, 791, 793, 796, 798, 801, 803, 806, 808,
    811, 813, 816, 818, 821, 823, 826, 828, 831, 833, 836, 838, 841, 843,
    846, 848, 851, 853, 856, 858, 861, 863, 866, 868, 871, 873, 876, 878,
    881, 883, 886, 888, 891, 893, 896, 898, 901, 903, 906, 908, 911, 913,
    916, 918, 921, 923, 926, 928, 931, 933, 936, 938, 941, 943, 946, 948,
    951, 953, 956, 958, 961, 963, 966, 968, 971, 973, 976, 978, 981, 983,
    986, 988, 991, 993, 996, 998, 1001, 1003, 1006, 1008, 1011, 1013, 1016,
    1018, 1021, 1023
    }

\* largest |offset| the table above covers
Shimmer5Range == 4096

\* Math.floor(offset * 0.05 * config.shimmer)
Distortion(offset, shimmer) ==
    LET exact == (offset * shimmer) \div 20
    IN  IF shimmer = 5 /\ offset < 0 /\ offset % 4 = 0
           /\ ((-offset) \div 4) \in Shimmer5Low
        THEN exact - 1
        ELSE exact

\* a number num / den stored into a Uint8ClampedArray element: clamped to
\* 0..255 and rounded to the nearest integer, ties to even
ToUint8Clamp(num, den) ==
    LET q == num \div den
        r == num % den
        n == IF 2 * r < den THEN q
             ELSE IF 2 * r > den THEN q + 1
             ELSE IF q % 2 = 0 THEN q ELSE q + 1
    IN  IF n < 0 THEN 0 ELSE IF n > 255 THEN 255 ELSE n

\* the blends out * (1 - t) + 0 * t whose exact value is a tie k + 1/2 but
\* whose double value falls just below it (Low) or just above it (High);
\* <<out, n>> with t = n / 40.  With a base channel of 80 or 255 the double
\* blend rounds as the exact one for every out and n.
TintTieLow == {<<45, 12>>, <<85, 12>>, <<165, 12>>, <<100, 17>>, <<180, 17>>}
TintTieHigh == {<<110, 18>>, <<190, 18>>, <<230, 18>>}

\* output[k] = output[k] * (1 - tintFactor * 0.5) + base * (tintFactor * 0.5)
\* with tintFactor = n / 20
TintBlend(out, base, n) ==
    LET exact == ToUint8Clamp(out * (40 - n) + base * n, 40)
        q == (out * (40 - n)) \div 40
    IN  IF base = 0 /\ <<out, n>> \in TintTieLow THEN q
        ELSE IF base = 0 /\ <<out, n>> \in TintTieHigh THEN q + 1
        ELSE exact

\* output[k] = Math.min(255, output[k] + intensity * (channel / 255))
HighlightBoost(out, intensity, channel) ==
    ToUint8Clamp(Min(255 * 255, out * 255 + intensity * channel), 255)

(* ------------------------------- state --------------------------------- *)
VARIABLES
    mounted,             \* the component is mounted (canvasRef.current set)
    resizeListener,      \* window 'resize' listener registered
    dimensionsRef,       \* [w, h]
    buffer1Ref,          \* [id, data]: the grid neighbours are read from
    buffer2Ref,          \* [id, data]: the grid a frame writes
    imageDataBufferRef,  \* <<>> for null, else <<[width, height, data]>>
    animationRef,        \* last handle requestAnimationFrame returned
    rafQueue,            \* pending frame callbacks [id, config, videoSource]
    config,              \* prop: the theme
    interactionPoint,    \* prop: [x, y, active], x and y as num / den
    videoSource,         \* prop: "null" or "video"
    videoReady,          \* readyState >= 2 of the video element
    lastOp,              \* the handler that ran last
    frameCount,          \* display refreshes so far
    eventCount           \* external events so far

vars == <<mounted, resizeListener, dimensionsRef, buffer1Ref, buffer2Ref,
          imageDataBufferRef, animationRef, rafQueue, config,
          interactionPoint, videoSource, videoReady, lastOp, frameCount,
          eventCount>>

\* clientWidth / clientHeight values of the resize events
ClientSizes == {0} \cup { scaleDen * s + 1 : s \in 3..MaxDim }
Points == { [num |-> k, den |-> PointDen] : k \in 0..PointDen }

\* new Int16Array(n): n zeros, indexed from 0
NewInt16Array(n) == [i \in 0..(n - 1) |-> 0]

\* ctx.createImageData(w, h): transparent black
createImageData(w, h) ==
    [width |-> w, height |-> h,
     data |-> [i \in 0..(w * h - 1) |-> <<0, 0, 0, 0>>]]

(* ------------------------------ texture -------------------------------- *)
\* the pixel of the current video picture at column x, row y once it is
\* scaled to the canvas
VideoPixel(x, y) == <<(x * 50 + 10) % 256, (y * 70 + 20) % 256, 200, 255>>

\* '#111'
FallbackPixel == <<17, 17, 17, 255>>

\* variant: the video is drawn whenever an element is there, ready or not
TextureIgnoresReady(w, h, source, ready) ==
    [i \in 0..(w * h - 1) |->
        IF source # "null"
        THEN VideoPixel(w - 1 - (i % w), i \div w)
        ELSE FallbackPixel]

\* variant: the video is drawn without the horizontal flip
TextureUnmirrored(w, h, source, ready) ==
    [i \in 0..(w * h - 1) |->
        IF source # "null" /\ ready
        THEN VideoPixel(i % w, i \div w)
        ELSE FallbackPixel]

\* translate(w, 0), scale(-1, 1), then drawImage or fillRect, then
\* getImageData(0, 0, w, h)
Texture(w, h, source, ready) ==
    [i \in 0..(w * h - 1) |->
        IF source # "null" /\ ready
        THEN VideoPixel(w - 1 - (i % w), i \div w)
        ELSE FallbackPixel]

(* ------------------------ the fused pixel loop ------------------------- *)
\* buffer2[i] after the two physics statements of iteration i
Propagate(buffer1, buffer2, i, w, damping) ==
    LET halved == ShiftRight1(buffer1[i - 1] + buffer1[i + 1]
                              + buffer1[i - w] + buffer1[i + w])
        first == ToInt16(halved - buffer2[i])
    IN  ToInt16(FloorDamp(first, damping))

\* variant: the sample coordinates are not clamped to the texture
SourceCoordsUnclamped(buffer2, i, w, h, shimmer) ==
    [x |-> (i % w) + Distortion(buffer2[i - 1] - buffer2[i + 1], shimmer),
     y |-> (i \div w) + Distortion(buffer2[i - w] - buffer2[i + w], shimmer)]

\* sourceX, sourceY of iteration i: the pixel's own coordinates displaced
\* by the distortion, each clamped by its two if statements
SourceCoords(buffer2, i, w, h, shimmer) ==
    LET sx0 == (i % w) + Distortion(buffer2[i - 1] - buffer2[i + 1], shimmer)
        sy0 == (i \div w) + Distortion(buffer2[i - w] - buffer2[i + w], shimmer)
        sx1 == IF sx0 < 0 THEN 0 ELSE sx0
        sy1 == IF sy0 < 0 THEN 0 ELSE sy0
    IN  [x |-> IF sx1 >= w THEN w - 1 ELSE sx1,
         y |-> IF sy1 >= h THEN h - 1 ELSE sy1]

\* the output pixel of iteration i, given buffer2 as the loop has left it
RenderPixel(buffer2, texture, i, w, h, cfg) ==
    LET xOffset == buffer2[i - 1] - buffer2[i + 1]
        yOffset == buffer2[i - w] - buffer2[i + w]
        distortionX == Distortion(xOffset, cfg.shimmer)
        distortionY == Distortion(yOffset, cfg.shimmer)
        source == SourceCoords(buffer2, i, w, h, cfg.shimmer)
        src == texture[source.y * w + source.x]
        n == Min(20, Abs(distortionX) + Abs(distortionY))
        base == hexToRgb(cfg.baseColor)
        highlight == hexToRgb(cfg.highlightColor)
        shading == xOffset - yOffset
        intensity == Min(255, shading * 2)
        lit == IF shading > 10
               THEN <<HighlightBoost(src[1], intensity, highlight.r),
                      HighlightBoost(src[2], intensity, highlight.g),
                      HighlightBoost(src[3], intensity, highlight.b)>>
               ELSE <<src[1], src[2], src[3]>>
    IN  IF n >= 2
        THEN <<TintBlend(lit[1], base.r, n), TintBlend(lit[2], base.g, n),
               TintBlend(lit[3], base.b, n), 255>>
        ELSE <<lit[1], lit[2], lit[3], 255>>

\* first and one-past-last index of  for (i = w + 1; i < w*h - w - 1; i++)
LoopFirst(w) == w + 1
LoopEnd(w, h) == w * h - w - 1

\* iterations i, i+1, ... of the loop: each one updates buffer2[i] in place
\* and then renders pixel i from buffer2 as it stands
RECURSIVE PixelLoop(_, _, _, _, _, _, _, _)
PixelLoop(i, buffer1, buffer2, output, texture, w, h, cfg) ==
    IF i >= LoopEnd(w, h)
    THEN [buffer2 |-> buffer2, output |-> output]
    ELSE LET b2 == [buffer2 EXCEPT ![i] =
                        Propagate(buffer1, buffer2, i, w, cfg.damping)]
             px == RenderPixel(b2, texture, i, w, h, cfg)
         IN  PixelLoop(i + 1, buffer1, b2, [output EXCEPT ![i] = px],
                       texture, w, h, cfg)

(* --------------------------- initial state ----------------------------- *)
\* a handle no pending callback and no ref holds: requestAnimationFrame
\* never returns 0 and never repeats a handle that is still around
FreshHandle(queue, ref) ==
    CHOOSE n \in 1..(Cardinality(queue) + 2) :
        n # ref /\ \A cb \in queue : cb.id # n

\* variant: both refs are given the same array
GridOfShared(n, id) == [id |-> 1, data |-> NewInt16Array(n)]

\* new Int16Array(n) as the array with identity id
GridOf(n, id) == [id |-> id, data |-> NewInt16Array(n)]

\* the layout the component is mounted in, in CSS pixels
InitialClient == scaleDen * MaxDim + 1

\* the component right after its first render and its three effects
\* (handleResize() for the layout, the interaction effect, the first
\* requestAnimationFrame), with theme cfg and the grids holding data1, data2
MountedWith(w, h, cfg, data1, data2, op) ==
    /\ mounted = TRUE
    /\ resizeListener = TRUE
    /\ dimensionsRef = [w |-> w, h |-> h]
    /\ buffer1Ref = [id |-> 1, data |-> data1]
    /\ buffer2Ref = [id |-> 2, data |-> data2]
    /\ imageDataBufferRef = <<>>
    /\ animationRef = 1
    /\ rafQueue = {[id |-> 1, config |-> cfg, videoSource |-> "null"]}
    /\ config = cfg
    /\ videoSource = "null"
    /\ videoReady = FALSE
    /\ lastOp = op
    /\ frameCount = 0
    /\ eventCount = 0

\* App's initial state: DEFAULT_CONFIG, point (0.5, 0.5, inactive), no video
Init ==
    LET w == InitialClient \div scaleDen
        h == InitialClient \div scaleDen
    IN  /\ MountedWith(w, h, DEFAULT_CONFIG, NewInt16Array(w * h),
                       NewInt16Array(w * h), "mount")
        /\ interactionPoint = [x |-> [num |-> 1, den |-> 2],
                               y |-> [num |-> 1, den |-> 2],
                               active |-> FALSE]

(* ------------------------------ resize --------------------------------- *)
\* variant: only the first grid is reallocated
handleResizeOneGrid(cw, ch) ==
    /\ resizeListener
    /\ mounted
    /\ LET w == cw \div scaleDen
           h == ch \div scaleDen
       IN  /\ dimensionsRef' = [w |-> w, h |-> h]
           /\ buffer1Ref' = GridOf(w * h, 1)
           /\ buffer2Ref' = buffer2Ref
    /\ lastOp' = "resize"
    /\ UNCHANGED <<mounted, resizeListener, imageDataBufferRef, animationRef,
                   rafQueue, config, interactionPoint, videoSource,
                   videoReady>>

\* window 'resize' event with the canvas laid out at cw x ch CSS pixels
handleResize(cw, ch) ==
    /\ resizeListener
    /\ mounted
    /\ LET w == cw \div scaleDen
           h == ch \div scaleDen
       IN  /\ dimensionsRef' = [w |-> w, h |-> h]
           /\ buffer1Ref' = GridOf(w * h, 1)
           /\ buffer2Ref' = GridOf(w * h, 2)
    /\ lastOp' = "resize"
    /\ UNCHANGED <<mounted, resizeListener, imageDataBufferRef, animationRef,
                   rafQueue, config, interactionPoint, videoSource,
                   videoReady>>

(* ------------------------- interaction effect -------------------------- *)
\* variant: the distance test written with <=
RippleCellsInclusive(w, h, x, y) ==
    { q[2] * w + q[1] :
        q \in { p \in ((x - radius)..(x + radius - 1))
                         \X ((y - radius)..(y + radius - 1)) :
                    /\ p[1] >= 0 /\ p[1] < w /\ p[2] >= 0 /\ p[2] < h
                    /\ (p[1] - x) * (p[1] - x) + (p[2] - y) * (p[2] - y)
                           <= radius * radius } }

\* the cells the two nested loops of the effect write
RippleCells(w, h, x, y) ==
    { q[2] * w + q[1] :
        q \in { p \in ((x - radius)..(x + radius - 1))
                         \X ((y - radius)..(y + radius - 1)) :
                    /\ p[1] >= 0 /\ p[1] < w /\ p[2] >= 0 /\ p[2] < h
                    /\ (p[1] - x) * (p[1] - x) + (p[2] - y) * (p[2] - y)
                           < radius * radius } }

\* variant: the effect does not test interactionPoint.active
InjectAlways(grid, p, w, h) ==
    LET x == (p.x.num * w) \div p.x.den
        y == (p.y.num * h) \div p.y.den
        hit == RippleCells(w, h, x, y)
    IN  [i \in DOMAIN grid |-> IF i \in hit THEN strength ELSE grid[i]]

\* buffer1Ref.current after the effect ran for point p
Inject(grid, p, w, h) ==
    IF p.active /\ w > 0
    THEN LET x == (p.x.num * w) \div p.x.den
             y == (p.y.num * h) \div p.y.den
             hit == RippleCells(w, h, x, y)
         IN  [i \in DOMAIN grid |-> IF i \in hit THEN strength ELSE grid[i]]
    ELSE grid

\* handleHandMove(x, y, isActive): a new interactionPoint object, so the
\* effect runs
SetInteractionPoint(p) ==
    /\ mounted
    /\ interactionPoint' = p
    /\ buffer1Ref' = [buffer1Ref EXCEPT
                        !.data = Inject(@, p, dimensionsRef.w, dimensionsRef.h)]
    /\ lastOp' = "point"
    /\ UNCHANGED <<mounted, resizeListener, dimensionsRef, buffer2Ref,
                   imageDataBufferRef, animationRef, rafQueue, config,
                   videoSource, videoReady>>

(* -------------------------- render-loop effect ------------------------- *)
\* variant: the cleanup cancels nothing
CancelNone(queue, ref) == queue

\* cleanup of the effect: if (animationRef.current) cancelAnimationFrame(..)
CancelPending(queue, ref) ==
    IF ref # 0 THEN { cb \in queue : cb.id # ref } ELSE queue

\* variant: the effect has no dependencies, the first closure keeps running
RestartLoopStale(cfg, source) == UNCHANGED <<rafQueue, animationRef>>

\* variant: the effect has no cleanup, every run only requests a frame
RestartLoopNoCancel(cfg, source) ==
    LET id == FreshHandle(rafQueue, animationRef)
    IN  /\ rafQueue' = rafQueue \cup {[id |-> id, config |-> cfg,
                                       videoSource |-> source]}
        /\ animationRef' = id

\* the effect re-runs for new props: cleanup of the old run, then
\* animationRef.current = requestAnimationFrame(renderloop) with the new
\* closure
RestartLoop(cfg, source) ==
    LET kept == CancelPending(rafQueue, animationRef)
        id == FreshHandle(kept, animationRef)
    IN  /\ rafQueue' = kept \cup {[id |-> id, config |-> cfg,
                                   videoSource |-> source]}
        /\ animationRef' = id

\* setConfig(prev => ({...prev, ...theme})): always a new object
SetConfig(cfg) ==
    /\ mounted
    /\ config' = cfg
    /\ RestartLoop(cfg, videoSource)
    /\ lastOp' = "config"
    /\ UNCHANGED <<mounted, resizeListener, dimensionsRef, buffer1Ref,
                   buffer2Ref, imageDataBufferRef, interactionPoint,
                   videoSource, videoReady>>

\* handleVideoReady(video): setVideoElement with the element; the sensor
\* calls it on 'loadeddata', when readyState is at least 2
SetVideoSource ==
    /\ mounted
    /\ videoSource = "null"
    /\ videoSource' = "video"
    /\ videoReady' = TRUE
    /\ RestartLoop(config, "video")
    /\ lastOp' = "video"
    /\ UNCHANGED <<mounted, resizeListener, dimensionsRef, buffer1Ref,
                   buffer2Ref, imageDataBufferRef, config, interactionPoint>>

\* the readyState of the video element moves across 2 (the stream stalls
\* or resumes); no prop changes, no effect runs
ReadyStateChange ==
    /\ videoSource = "video"
    /\ videoReady' = ~videoReady
    /\ lastOp' = "readyState"
    /\ UNCHANGED <<mounted, resizeListener, dimensionsRef, buffer1Ref,
                   buffer2Ref, imageDataBufferRef, animationRef, rafQueue,
                   config, interactionPoint, videoSource>>

\* variant: the cached ImageData is kept whenever its width fits
OutputImageWidthOnly(w, h) ==
    IF imageDataBufferRef = <<>>
    THEN createImageData(w, h)
    ELSE IF imageDataBufferRef[1].width # w
         THEN createImageData(w, h)
         ELSE imageDataBufferRef[1]

\* the output ImageData a frame uses: the cached one if its size fits
OutputImage(w, h) ==
    IF imageDataBufferRef = <<>>
    THEN createImageData(w, h)
    ELSE IF imageDataBufferRef[1].width # w \/ imageDataBufferRef[1].height # h
         THEN createImageData(w, h)
         ELSE imageDataBufferRef[1]

\* variant: the height is not tested
FrameSkipsWidthOnly == ~mounted \/ dimensionsRef.w = 0

\* the frame skips: canvas gone, or w === 0 || h === 0
FrameSkips == ~mounted \/ dimensionsRef.w = 0 \/ dimensionsRef.h = 0

\* the browser runs pending callback cb, i.e. renderloop with cb's closure
renderloop(cb) ==
    LET w == dimensionsRef.w
        h == dimensionsRef.h
        after == rafQueue \ {cb}
    IN  IF FrameSkips
        THEN /\ rafQueue' = after
             /\ lastOp' = "skip"
             /\ UNCHANGED <<mounted, resizeListener, dimensionsRef,
                            buffer1Ref, buffer2Ref, imageDataBufferRef,
                            animationRef, config, interactionPoint,
                            videoSource, videoReady>>
        ELSE LET texture == Texture(w, h, cb.videoSource, videoReady)
                 outputImage == OutputImage(w, h)
                 done == PixelLoop(LoopFirst(w), buffer1Ref.data,
                                   buffer2Ref.data, outputImage.data,
                                   texture, w, h, cb.config)
                 id == FreshHandle(after, animationRef)
             IN  /\ imageDataBufferRef' =
                        <<[outputImage EXCEPT !.data = done.output]>>
                 /\ buffer1Ref' = [buffer2Ref EXCEPT !.data = done.buffer2]
                 /\ buffer2Ref' = buffer1Ref
                 /\ animationRef' = id
                 /\ rafQueue' = after \cup {[cb EXCEPT !.id = id]}
                 /\ lastOp' = "frame"
                 /\ UNCHANGED <<mounted, resizeListener, dimensionsRef,
                                config, interactionPoint, videoSource,
                                videoReady>>

\* one display refresh: the browser runs the pending callback
AnimationFrame ==
    /\ frameCount < MaxFrames
    /\ frameCount' = frameCount + 1
    /\ UNCHANGED eventCount
    /\ \E cb \in rafQueue : renderloop(cb)

(* ------------------------------ teardown ------------------------------- *)
\* the cleanups of the effects: removeEventListener, cancelAnimationFrame
Unmount ==
    /\ mounted
    /\ mounted' = FALSE
    /\ resizeListener' = FALSE
    /\ rafQueue' = CancelPending(rafQueue, animationRef)
    /\ lastOp' = "unmount"
    /\ UNCHANGED <<dimensionsRef, buffer1Ref, buffer2Ref, imageDataBufferRef,
                   animationRef, config, interactionPoint, videoSource,
                   videoReady>>

(* --------------------------- specification ----------------------------- *)
\* an event from outside the component
External ==
    /\ eventCount < MaxEvents
    /\ eventCount' = eventCount + 1
    /\ UNCHANGED frameCount

Resize ==
    External /\ \E cw \in ClientSizes, ch \in ClientSizes : handleResize(cw, ch)

\* the tracker reports the finger tip, or (0, 0, false) when it sees no hand
Interaction ==
    External /\ \/ \E x \in Points, y \in Points :
                       SetInteractionPoint([x |-> x, y |-> y, active |-> TRUE])
                \/ SetInteractionPoint([x |-> [num |-> 0, den |-> 1],
                                        y |-> [num |-> 0, den |-> 1],
                                        active |-> FALSE])

ThemeChange == External /\ \E cfg \in Themes : SetConfig(cfg)

VideoAttached == External /\ SetVideoSource

VideoReadiness == External /\ ReadyStateChange

Teardown == External /\ Unmount

Next ==
    \/ Resize
    \/ Interaction
    \/ ThemeChange
    \/ VideoAttached
    \/ VideoReadiness
    \/ AnimationFrame
    \/ Teardown

Spec == Init /\ [][Next]_vars

(* ------------------- the wave field on its own ------------------------- *)
\* frames only, counted
WaveFrame ==
    /\ frameCount < MaxWaveFrames
    /\ frameCount' = frameCount + 1
    /\ UNCHANGED eventCount
    /\ \E cb \in rafQueue : renderloop(cb)

\* mounted in some layout with some theme, and the tracker's first active
\* point has been injected
InitWave ==
    \E cw \in ClientSizes \ {0}, ch \in ClientSizes \ {0}, cfg \in Themes,
       x \in Points, y \in Points :
        LET w == cw \div scaleDen
            h == ch \div scaleDen
            p == [x |-> x, y |-> y, active |-> TRUE]
        IN  /\ MountedWith(w, h, cfg, Inject(NewInt16Array(w * h), p, w, h),
                           NewInt16Array(w * h), "point")
            /\ interactionPoint = p

SpecWave == InitWave /\ [][WaveFrame]_vars

\* frames only, as long as the loop runs
DecayFrame ==
    /\ UNCHANGED <<frameCount, eventCount>>
    /\ \E cb \in rafQueue : renderloop(cb)

\* a 3 x 3 grid pair: one interior cell (index 4) inside a border ring
RingGrid(border, centre) == [i \in 0..8 |-> IF i = 4 THEN centre ELSE border]

DecayAmps == (-MaxAmp..MaxAmp) \cup {strength}

\* any grid state of a 3 x 3 field: each ring at 0 or at the deposit
\* strength, each interior cell at a small or a deposit-size amplitude
InitDecay ==
    \E cfg \in Themes, b1 \in {0, strength}, b2 \in {0, strength},
       a1 \in DecayAmps, a2 \in DecayAmps :
        /\ MountedWith(3, 3, cfg, RingGrid(b1, a1), RingGrid(b2, a2), "mount")
        /\ interactionPoint = [x |-> [num |-> 0, den |-> 1],
                               y |-> [num |-> 0, den |-> 1],
                               active |-> FALSE]

SpecDecay == InitDecay /\ [][DecayFrame]_vars /\ WF_vars(DecayFrame)

(* ---------------------- colour strings on their own -------------------- *)
\* the characters the colour strings of the study are made of, and every
\* string of them up to the longest
ColourChars == {"#", "0", "f", "g"}
ColourStrings == UNION { [1..n -> ColourChars] : n \in 0..MaxColourLen }

\* the same string with other digits and letters of the other case
Recase(s) ==
    [k \in 1..Len(s) |->
        CASE s[k] = "f" -> "F"
          [] s[k] = "0" -> "9"
          [] s[k] = "g" -> "G"
          [] OTHER -> s[k]]

\* mounted with a theme whose colour strings are whatever the theme
\* service returned
InitParse ==
    \E s \in ColourStrings :
        /\ MountedWith(3, 3,
                       [DEFAULT_CONFIG EXCEPT !.baseColor = s,
                                              !.highlightColor = Recase(s)],
                       NewInt16Array(9), NewInt16Array(9), "mount")
        /\ interactionPoint = [x |-> [num |-> 1, den |-> 2],
                               y |-> [num |-> 1, den |-> 2],
                               active |-> FALSE]

\* the first frame after the mount: it parses both colours
FirstFrame == lastOp = "mount" /\ AnimationFrame

SpecParse == InitParse /\ [][FirstFrame]_vars

(* ------------------- the pixel loop on grids of any size --------------- *)
\* a grid of n cells holding a at the even and b at the odd indices
Striped(n, a, b) == [i \in 0..(n - 1) |-> IF i % 2 = 0 THEN a ELSE b]

StripeAmps == {-(strength \div 4), 0, strength \div 4}

\* shimmer is any number from 1 to 20
ShimmerThemes ==
    Themes \cup {[DEFAULT_CONFIG EXCEPT !.shimmer = 1],
                 [DEFAULT_CONFIG EXCEPT !.shimmer = 16]}

\* mounted with any w, h >= 1, any shimmer, and striped grids
InitBounds ==
    \E w \in 1..MaxSide, h \in 1..MaxSide, cfg \in ShimmerThemes,
       a1 \in StripeAmps, b1 \in StripeAmps, a2 \in StripeAmps,
       b2 \in StripeAmps :
        /\ MountedWith(w, h, cfg, Striped(w * h, a1, b1),
                       Striped(w * h, a2, b2), "mount")
        /\ interactionPoint = [x |-> [num |-> 0, den |-> 1],
                               y |-> [num |-> 0, den |-> 1],
                               active |-> FALSE]

SpecBounds == InitBounds /\ [][AnimationFrame]_vars

(* ------------------ taps timed to the swing of the field --------------- *)
\* the default damping with a shimmer whose distortion is exact for every
\* difference of two Int16 values
SwellThemes == {[DEFAULT_CONFIG EXCEPT !.shimmer = 1],
                [DEFAULT_CONFIG EXCEPT !.shimmer = 16]}

\* the finger rests on the middle of the canvas
SwellPoint == [x |-> [num |-> 1, den |-> 2], y |-> [num |-> 1, den |-> 2],
               active |-> TRUE]

\* mounted in a small square layout with zeroed grids
InitSwell ==
    \E s \in (SwellSide - 1)..SwellSide, cfg \in SwellThemes :
        /\ MountedWith(s, s, cfg, NewInt16Array(s * s), NewInt16Array(s * s),
                       "mount")
        /\ interactionPoint = [x |-> [num |-> 1, den |-> 2],
                               y |-> [num |-> 1, den |-> 2],
                               active |-> FALSE]

\* the cell under the finger is at or below rest and not falling
RisingFromTrough ==
    LET c == ((dimensionsRef.h \div 2) * dimensionsRef.w)
                 + (dimensionsRef.w \div 2)
    IN  /\ buffer1Ref.data[c] <= 0
        /\ buffer1Ref.data[c] >= buffer2Ref.data[c]

\* the tracker reports the finger at every such moment, and only then ...
SwellTap ==
    /\ frameCount < MaxSwellFrames
    /\ RisingFromTrough
    /\ UNCHANGED <<frameCount, eventCount>>
    /\ SetInteractionPoint(SwellPoint)

\* ... before the next display refresh
SwellFrame ==
    /\ frameCount < MaxSwellFrames
    /\ ~RisingFromTrough
    /\ frameCount' = frameCount + 1
    /\ UNCHANGED eventCount
    /\ \E cb \in rafQueue : renderloop(cb)

SpecSwell == InitSwell /\ [][SwellTap \/ SwellFrame]_vars

(* --------------------------- model validity ---------------------------- *)
\* every amplitude is small enough for the difference of two of them to lie
\* in the range the table Shimmer5Low covers
AmplitudesCovered ==
    \A i \in DOMAIN buffer1Ref.data :
        /\ 2 * Abs(buffer1Ref.data[i]) <= Shimmer5Range
        /\ 2 * Abs(buffer2Ref.data[i]) <= Shimmer5Range

(* ======================= properties of the claims ====================== *)
\* the step is one run of the frame callback / one that ran physics and render
CallbackStep == frameCount' = frameCount + 1
FrameStep == CallbackStep /\ lastOp' = "frame"
\* the step is the interaction effect running for a new point
PointStep == eventCount' = eventCount + 1 /\ lastOp' = "point"

W == dimensionsRef.w
H == dimensionsRef.h
Cells == 0..(W * H - 1)
IsBorder(i) == i % W = 0 \/ i % W = W - 1 \/ i \div W = 0 \/ i \div W = H - 1

\* C1: a frame leaves every cell of the border ring (row 0, row h-1,
\* column 0, column w-1) of both grids as it was, for w, h >= 3.
C1_BorderNeverWritten ==
    [][(FrameStep /\ W >= 3 /\ H >= 3) =>
          \A i \in Cells :
              IsBorder(i) =>
                  /\ buffer1Ref'.data[i] = buffer2Ref.data[i]
                  /\ buffer2Ref'.data[i] = buffer1Ref.data[i]]_vars

\* the loop's index range
InLoop(i) == i >= LoopFirst(W) /\ i < LoopEnd(W, H)

\* two-pass reference: propagate every cell of the loop's range first ...
PropagateAll(buffer1, buffer2, damping) ==
    [i \in DOMAIN buffer2 |->
        IF InLoop(i) THEN Propagate(buffer1, buffer2, i, W, damping)
        ELSE buffer2[i]]

\* ... and render afterwards, from the finished grid
RenderAll(grid, output, texture, cfg) ==
    [i \in DOMAIN output |->
        IF InLoop(i) THEN RenderPixel(grid, texture, i, W, H, cfg)
        ELSE output[i]]

\* C2: the output of a frame equals the output of the two-pass reference,
\* whose gradients all come from the fully propagated grid.
C2_RenderFromPropagatedGrid ==
    [][FrameStep =>
          \A cb \in rafQueue :
              imageDataBufferRef'[1].data =
                  RenderAll(PropagateAll(buffer1Ref.data, buffer2Ref.data,
                                         cb.config.damping),
                            OutputImage(W, H).data,
                            Texture(W, H, cb.videoSource, videoReady),
                            cb.config)]_vars

\* C3: after every run of the frame callback while mounted, also one that
\* skips its work, a next frame callback is pending.
C3_LoopKeepsRunning ==
    [][(CallbackStep /\ mounted) => rafQueue' # {}]_vars

\* C4: after a frame that ran render, no pixel of the output buffer holds
\* the value it was created with: every pixel has been written.
C4_EveryPixelWritten ==
    lastOp = "frame" =>
        \A i \in Cells : imageDataBufferRef[1].data[i] # <<0, 0, 0, 0>>

\* the pixel centre floor(x * w), floor(y * h) of the latest point
CentreX == (interactionPoint.x.num * W) \div interactionPoint.x.den
CentreY == (interactionPoint.y.num * H) \div interactionPoint.y.den

\* C6: for an active point and w, h > 0 the interaction effect sets exactly
\* the cells of the current grid within squared distance < 16 of the centre
\* to 600, keeps every other cell of it, keeps the previous grid and the
\* size of both.
C6_InjectionExact ==
    [][(PointStep /\ interactionPoint'.active /\ W > 0 /\ H > 0) =>
          /\ DOMAIN buffer1Ref'.data = Cells
          /\ \A px \in 0..(W - 1), py \in 0..(H - 1) :
                buffer1Ref'.data[py * W + px] =
                    IF (px - CentreX') * (px - CentreX')
                         + (py - CentreY') * (py - CentreY') < 16
                    THEN 600
                    ELSE buffer1Ref.data[py * W + px]
          /\ buffer2Ref' = buffer2Ref]_vars

\* an active point with x = 1 was injected into a grid that frames had
\* already filled, and the deposit covers part of the grid only
C6_Witness ==
    /\ lastOp = "point" /\ interactionPoint.active /\ W > 0 /\ H > 0
    /\ interactionPoint.x.num = interactionPoint.x.den
    /\ frameCount > 0
    /\ \E i \in Cells : buffer1Ref.data[i] = 600
    /\ \E i \in Cells : buffer1Ref.data[i] \notin {0, 600}
    /\ \E i \in Cells : buffer2Ref.data[i] # 0

\* C7: right after a resize both grids have exactly w * h elements, all 0.
C7_ResizeReset ==
    lastOp = "resize" =>
        /\ buffer1Ref.data = [i \in Cells |-> 0]
        /\ buffer2Ref.data = [i \in Cells |-> 0]

\* a resize to a non-empty grid after an injection and a frame
C7_Witness ==
    /\ lastOp = "resize" /\ W > 0 /\ H > 0 /\ W # H
    /\ interactionPoint.active /\ frameCount > 0

\* C8: both grids always have exactly w * h elements, and the output
\* buffer a frame has just used is w x h.
C8_SizeAgreement ==
    /\ DOMAIN buffer1Ref.data = Cells
    /\ DOMAIN buffer2Ref.data = Cells
    /\ lastOp = "frame" =>
          /\ imageDataBufferRef # <<>>
          /\ imageDataBufferRef[1].width = W
          /\ imageDataBufferRef[1].height = H
          /\ DOMAIN imageDataBufferRef[1].data = Cells

\* a second frame ran, after a resize to a different, non-square layout
C8_Witness ==
    /\ lastOp = "frame" /\ frameCount = 2 /\ eventCount > 0
    /\ W # H /\ W * H # (InitialClient \div scaleDen) * (InitialClient \div scaleDen)

\* C9: a frame callback that runs while w = 0 or h = 0 leaves both grids,
\* their roles and the output buffer unchanged.
C9_ZeroDimsSkip ==
    [][(CallbackStep /\ (W = 0 \/ H = 0)) =>
          /\ buffer1Ref' = buffer1Ref
          /\ buffer2Ref' = buffer2Ref
          /\ imageDataBufferRef' = imageDataBufferRef]_vars

\* the callback skipped with w > 0 and h = 0 while an output buffer of an
\* earlier frame exists
C9_Witness ==
    /\ lastOp = "skip" /\ W > 0 /\ H = 0
    /\ imageDataBufferRef # <<>>

\* every interior cell of both grids has absolute value <= 1
InteriorSmall ==
    \A i \in Cells :
        ~IsBorder(i) => /\ Abs(buffer1Ref.data[i]) <= 1
                        /\ Abs(buffer2Ref.data[i]) <= 1

\* every border cell of both grids is 0
BorderZero ==
    \A i \in Cells :
        IsBorder(i) => buffer1Ref.data[i] = 0 /\ buffer2Ref.data[i] = 0

NeighbourSum(g, i) == g[i - 1] + g[i + 1] + g[i - W] + g[i + W]

\* C10 as stated: the value a frame stores is obtained by halving the
\* neighbour sum and by multiplying by damping with truncation toward zero.
C10_TruncatesTowardZero ==
    [][FrameStep =>
          \A cb \in rafQueue : \A i \in Cells :
              InLoop(i) =>
                  buffer1Ref'.data[i] =
                      ToInt16(TruncDamp(
                          ToInt16(TruncHalf(NeighbourSum(buffer1Ref.data, i))
                                  - buffer2Ref.data[i]),
                          cb.config.damping))]_vars

\* C10 amended: both steps round toward minus infinity: the halved sum u
\* is the integer with 2u <= sum < 2u + 2, and the stored value v the
\* integer with v <= (u - prev) * damping < v + 1, negative values included.
C10_RoundsTowardMinusInfinity ==
    [][FrameStep =>
          \A cb \in rafQueue : \A i \in Cells :
              InLoop(i) =>
                  LET s == NeighbourSum(buffer1Ref.data, i)
                      v == buffer1Ref'.data[i]
                      d == cb.config.damping
                  IN  \E u \in (-Abs(s))..Abs(s) :
                          /\ 2 * u <= s /\ s < 2 * u + 2
                          /\ LET t == ToInt16(u - buffer2Ref.data[i])
                             IN  /\ v * d.den <= t * d.num
                                 /\ t * d.num < (v + 1) * d.den]_vars

\* a frame has halved a negative odd neighbour sum and stored a negative
\* value (the grid the sum was read from is the previous grid now)
C10_Witness ==
    /\ lastOp = "frame"
    /\ \E i \in Cells :
          /\ InLoop(i)
          /\ NeighbourSum(buffer2Ref.data, i) < 0
          /\ NeighbourSum(buffer2Ref.data, i) % 2 = 1
          /\ buffer1Ref.data[i] < 0

\* the step is a theme change
ThemeStep == eventCount' = eventCount + 1 /\ lastOp' = "config"

\* C11: once the component is unmounted no frame callback is pending and
\* the resize listener is gone, and from then on no frame callback runs and
\* neither the dimensions, nor a grid, nor the output buffer changes.
C11_TeardownStopsEverything ==
    /\ [](~mounted => (rafQueue = {} /\ ~resizeListener))
    /\ [][~mounted =>
             /\ ~CallbackStep
             /\ UNCHANGED <<dimensionsRef, buffer1Ref, buffer2Ref,
                            imageDataBufferRef>>]_vars

\* the component was unmounted while the callback a frame had requested
\* was pending
C11_Witness ==
    /\ ~mounted /\ lastOp = "unmount"
    /\ frameCount > 0 /\ animationRef > 1
    /\ W > 0 /\ H > 0

\* the texture a frame is to use: the mirrored video picture if the video
\* prop is set and ready, the fallback colour everywhere otherwise
ExpectedTexture ==
    [i \in Cells |->
        IF videoSource = "video" /\ videoReady
        THEN VideoPixel(W - 1 - (i % W), i \div W)
        ELSE <<17, 17, 17, 255>>]

\* grid and output the pixel loop leaves for a texture and a theme
FrameResult(texture, cfg) ==
    PixelLoop(W + 1, buffer1Ref.data, buffer2Ref.data, OutputImage(W, H).data,
              texture, W, H, cfg)

\* C12: every frame callback that runs with w, h > 0 runs physics and
\* render on the fallback texture if the video prop is null or not ready
\* and on the mirrored video if it is ready, swaps the grids, and leaves a
\* callback pending that looks at the current video prop.
C12_NotReadyFallsBack ==
    [][(CallbackStep /\ W > 0 /\ H > 0) =>
          \A cb \in rafQueue :
              LET r == FrameResult(ExpectedTexture, cb.config)
              IN  /\ lastOp' = "frame"
                  /\ imageDataBufferRef'[1].data = r.output
                  /\ buffer1Ref' = [buffer2Ref EXCEPT !.data = r.buffer2]
                  /\ buffer2Ref' = buffer1Ref
                  /\ rafQueue' # {}
                  /\ \A n \in rafQueue' : n.videoSource = videoSource]_vars

\* a frame ran while the video element was attached but not ready, and
\* wrote the fallback colour
C12_Witness ==
    /\ lastOp = "frame" /\ videoSource = "video" /\ ~videoReady
    /\ \E i \in Cells : InLoop(i) /\ imageDataBufferRef[1].data[i] = FallbackPixel
    /\ rafQueue # {}

\* C13: the interaction effect for a point with active = false, or run
\* while w = 0, changes neither grid, nor the dimensions, nor the output
\* buffer.
C13_InactiveInjectionNoOp ==
    [][(PointStep /\ (~interactionPoint'.active \/ W = 0)) =>
          UNCHANGED <<buffer1Ref, buffer2Ref, dimensionsRef,
                      imageDataBufferRef>>]_vars

\* an inactive point arrived after a frame, with cells around (0, 0) that
\* a deposit would have changed
C13_Witness ==
    /\ lastOp = "point" /\ ~interactionPoint.active
    /\ W > 0 /\ H > 0 /\ frameCount > 0
    /\ imageDataBufferRef # <<>>
    /\ buffer1Ref.data[0] # strength

\* C14: a theme change leaves both grids, their roles and the dimensions
\* as they are, and every frame computes its grid and its output with the
\* damping, shimmer and colours of the theme prop current at that time.
C14_ThemeChangeNextFrame ==
    /\ [][ThemeStep =>
             UNCHANGED <<buffer1Ref, buffer2Ref, dimensionsRef>>]_vars
    /\ [][FrameStep =>
             LET r == FrameResult(Texture(W, H, videoSource, videoReady),
                                  config)
             IN  /\ buffer1Ref'.data = r.buffer2
                 /\ imageDataBufferRef'[1].data = r.output]_vars

\* a second frame ran under the other theme on a field that is not flat
C14_Witness ==
    /\ lastOp = "frame" /\ frameCount > 1
    /\ config = LAVA_CONFIG
    /\ \E i \in Cells : buffer1Ref.data[i] # 0

\* every cell of grid g is 0
Flat(g) == \A i \in DOMAIN g : g[i] = 0

\* C15: a frame on two all-zero grids writes, at every interior pixel, the
\* pixel of the mirrored texture at the same coordinates with alpha 255,
\* and leaves both grids all zero.
C15_ZeroDistortionRoundTrip ==
    [][(FrameStep /\ Flat(buffer1Ref.data) /\ Flat(buffer2Ref.data)) =>
          /\ \A i \in Cells :
                ~IsBorder(i) =>
                    imageDataBufferRef'[1].data[i] =
                        <<ExpectedTexture[i][1], ExpectedTexture[i][2],
                          ExpectedTexture[i][3], 255>>
          /\ Flat(buffer1Ref'.data)
          /\ Flat(buffer2Ref'.data)]_vars

\* a frame ran on a flat field under the other theme with the video ready
C15_Witness ==
    /\ lastOp = "frame" /\ videoSource = "video" /\ videoReady
    /\ config = LAVA_CONFIG
    /\ Flat(buffer1Ref.data) /\ Flat(buffer2Ref.data)
    /\ \E i \in Cells : ~IsBorder(i)

\* C17: for every interior cell i the value a frame stores in the next grid
\* is floor((floor(sum / 2) - prev[i]) * damping), sum being the four
\* neighbours of i in the current grid and prev[i] the value the previous
\* grid held at i before the frame.
C17_PropagationFormula ==
    [][FrameStep =>
          \A cb \in rafQueue : \A i \in Cells :
              ~IsBorder(i) =>
                  buffer1Ref'.data[i] =
                      (((NeighbourSum(buffer1Ref.data, i) \div 2)
                            - buffer2Ref.data[i]) * cb.config.damping.num)
                          \div cb.config.damping.den]_vars

\* a later frame stored a value at an interior cell whose previous value
\* and whose neighbour sum were both non-zero
C17_Witness ==
    /\ lastOp = "frame" /\ frameCount > 1
    /\ \E i \in Cells :
          /\ ~IsBorder(i)
          /\ buffer1Ref.data[i] # 0
          /\ NeighbourSum(buffer2Ref.data, i) # 0
          /\ NeighbourSum(buffer2Ref.data, i) % 2 = 1

\* C18: the two grid refs always hold two distinct arrays, and every frame
\* that runs physics makes the array it wrote the current grid and the
\* array that was current, untouched, the previous grid.
C18_PingPong ==
    /\ [](buffer1Ref.id # buffer2Ref.id)
    /\ [][FrameStep =>
             /\ buffer1Ref'.id = buffer2Ref.id
             /\ buffer2Ref' = buffer1Ref]_vars

\* two frames ran on a field that is not flat: the roles are back where
\* they started
C18_Witness ==
    /\ lastOp = "frame" /\ frameCount > 1
    /\ buffer1Ref.id = 1 /\ buffer2Ref.id = 2
    /\ \E i \in Cells : buffer1Ref.data[i] # 0
    /\ \E i \in Cells : buffer2Ref.data[i] # 0

\* C19: whenever a frame runs physics while the latest interaction point
\* is active, the current grid it reads holds the deposit of 600 at every
\* cell of that point's ripple.
C19_DepositBeforeEveryFrame ==
    [][(FrameStep /\ interactionPoint.active) =>
          \A i \in RippleCells(W, H, CentreX, CentreY) :
              buffer1Ref.data[i] = 600]_vars

\* the hex digits and their values
HexChars == {"0", "1", "2", "3", "4", "5", "6", "7", "8", "9",
             "a", "b", "c", "d", "e", "f", "A", "B", "C", "D", "E", "F"}
DigitOf(c) ==
    CASE c = "0" -> 0 [] c = "1" -> 1 [] c = "2" -> 2 [] c = "3" -> 3
      [] c = "4" -> 4 [] c = "5" -> 5 [] c = "6" -> 6 [] c = "7" -> 7
      [] c = "8" -> 8 [] c = "9" -> 9
      [] c \in {"a", "A"} -> 10 [] c \in {"b", "B"} -> 11
      [] c \in {"c", "C"} -> 12 [] c \in {"d", "D"} -> 13
      [] c \in {"e", "E"} -> 14 [] c \in {"f", "F"} -> 15

\* s is six hex digits; the channels they spell
IsHex6(s) == Len(s) = 6 /\ \A k \in 1..6 : s[k] \in HexChars
Channels(s) ==
    [r |-> 16 * DigitOf(s[1]) + DigitOf(s[2]),
     g |-> 16 * DigitOf(s[3]) + DigitOf(s[4]),
     b |-> 16 * DigitOf(s[5]) + DigitOf(s[6])]
IsHashHex6(s) == Len(s) = 7 /\ s[1] = "#" /\ IsHex6(Tail(s))
Black == [r |-> 0, g |-> 0, b |-> 0]

ParsesAsStated(s) ==
    hexToRgb(s) = IF IsHashHex6(s) THEN Channels(Tail(s)) ELSE Black

ParsesHashOptional(s) ==
    hexToRgb(s) = IF IsHashHex6(s) THEN Channels(Tail(s))
                  ELSE IF IsHex6(s) THEN Channels(s)
                  ELSE Black

\* C16 as stated: a colour string that is # and six hex digits parses to
\* its three channels, and every other string parses to (0, 0, 0).
C16_OnlyHashFormParses ==
    ParsesAsStated(config.baseColor) /\ ParsesAsStated(config.highlightColor)

\* C16 amended: a colour string that is six hex digits, with or without a
\* leading #, parses to its three channels, and every other string parses
\* to (0, 0, 0).
C16_HashOptional ==
    /\ ParsesHashOptional(config.baseColor)
    /\ ParsesHashOptional(config.highlightColor)

\* a frame has parsed six hex digits without a # into non-black colours
C16_Witness ==
    /\ lastOp = "frame"
    /\ IsHex6(config.baseColor) /\ IsHex6(config.highlightColor)
    /\ hexToRgb(config.baseColor) = [r |-> 255, g |-> 0, b |-> 15]
    /\ hexToRgb(config.highlightColor) = [r |-> 255, g |-> 153, b |-> 159]

\* buffer2 as iteration i of the pixel loop leaves it after its physics:
\* the cells up to i propagated, the later ones as before the frame
LoopState(i, damping) ==
    [j \in Cells |->
        IF InLoop(j) /\ j <= i
        THEN Propagate(buffer1Ref.data, buffer2Ref.data, j, W, damping)
        ELSE buffer2Ref.data[j]]

\* C20: for w, h >= 1, in the frame the pending callback is about to run,
\* every iteration i reads and writes grid cells i, i-1, i+1, i-w, i+w
\* inside [0, w*h), writes output pixel (i mod w, i div w) inside the
\* image, and samples a texture pixel with 0 <= sx < w and 0 <= sy < h.
C20_NoOutOfBounds ==
    (W >= 1 /\ H >= 1) =>
        \A cb \in rafQueue : \A i \in LoopFirst(W)..(LoopEnd(W, H) - 1) :
            /\ {i, i - 1, i + 1, i - W, i + W} \subseteq 0..(W * H - 1)
            /\ i % W \in 0..(W - 1) /\ i \div W \in 0..(H - 1)
            /\ LET s == SourceCoords(LoopState(i, cb.config.damping), i, W, H,
                                     cb.config.shimmer)
               IN  s.x \in 0..(W - 1) /\ s.y \in 0..(H - 1)

\* a frame has run and in the next one the displaced coordinates of some
\* pixel leave the texture on the left and of some pixel at the bottom
C20_Witness ==
    /\ lastOp = "frame" /\ W >= 1 /\ H >= 1 /\ W # H
    /\ \E cb \in rafQueue : \E i \in LoopFirst(W)..(LoopEnd(W, H) - 1) :
          SourceCoordsUnclamped(LoopState(i, cb.config.damping), i, W, H,
                                cb.config.shimmer).x < 0
    /\ \E cb \in rafQueue : \E i \in LoopFirst(W)..(LoopEnd(W, H) - 1) :
          SourceCoordsUnclamped(LoopState(i, cb.config.damping), i, W, H,
                                cb.config.shimmer).y >= H

\* C21: at most one frame callback is pending in every state, and it is the
\* one whose handle animationRef holds; so each display refresh runs one
\* callback and a frame is the only step that swaps the grids.
C21_OnePendingCallback ==
    /\ Cardinality(rafQueue) <= 1
    /\ \A cb \in rafQueue : cb.id = animationRef

\* the loop was restarted by a prop change while the callback a frame had
\* requested was pending, after an earlier event
C21_Witness ==
    /\ lastOp \in {"config", "video"}
    /\ frameCount > 0 /\ eventCount > 1
    /\ Cardinality(rafQueue) = 1

\* the values that fit a signed 16-bit element
Int16Range == -32768..32767

\* C22: in every frame and for every cell the loop updates, the neighbour
\* sum halved minus the previous value, and that value times damping
\* rounded down, both lie in [-32768, 32767].
C22_AmplitudesFitInt16 ==
    [][FrameStep =>
          \A cb \in rafQueue : \A i \in Cells :
              InLoop(i) =>
                  LET t == (NeighbourSum(buffer1Ref.data, i) \div 2)
                               - buffer2Ref.data[i]
                  IN  /\ t \in Int16Range
                      /\ (t * cb.config.damping.num)
                             \div cb.config.damping.den \in Int16Range]_vars

====
